---- MODULE Spec2Model ----
(***************************************************************************)
(* Fleet-management application (app3.py, with db.py's sample loader).     *)
(*                                                                         *)
(* The store is the SQLite file: the tables trucks, maintenance_logs and   *)
(* monthly_mileages with their AUTOINCREMENT counters.  The session is     *)
(* Streamlit's session_state (page_select, selected_truck).  Every button  *)
(* handler ends in st.rerun(), which runs the script again and renders the *)
(* selected page, so every action ends by rendering: view is what the      *)
(* script last rendered.                                                   *)
(*                                                                         *)
(* Dates are stored as ISO text (sqlite3's date adapter); ISO text of      *)
(* four-digit years orders like the number yyyymmdd, which is what the     *)
(* store holds here.  Python works on date objects <<year, month, day>>.   *)
(* Costs and odometer readings are REAL in the store; the model uses       *)
(* integers, on which + and the comparisons agree with the floats' for the *)
(* values used, and keeps cost_per_mile as the exact fraction num/den.     *)
(***************************************************************************)
EXTENDS Integers, Sequences, FiniteSets, TLC

VARIABLES
    trucks,          \* table trucks: set of rows
    logs,            \* table maintenance_logs: set of rows
    mileages,        \* table monthly_mileages: set of rows
    seq,             \* sqlite_sequence: last AUTOINCREMENT id of each table
    page_select,     \* st.session_state.page_select
    selected_truck,  \* st.session_state.selected_truck (None when unset)
    view,            \* what the last script run rendered
    vehicles,        \* db.py: table vehicles (number of rows; ids 1..vehicles)
    db_logs,         \* db.py: table maintenance_logs (vehicle_id schema)
    app,             \* app.py: its page and its store (trucks, expenses)
    edited_monthly   \* the ledger editor's rows, where its edits are drawn

vars == <<trucks, logs, mileages, seq, page_select, selected_truck, view,
          vehicles, db_logs, app, edited_monthly>>

\* Python's None where a row id is expected: ids start at 1
None == 0

\* the ledger editor's rows are not held in the state: "Save Monthly
\* Changes" takes any edits
NoEditorRead == [truck_id |-> None, rows |-> <<>>]

-----------------------------------------------------------------------------
(* Bounds of the model.                                                    *)

MaxEntries == 2      \* monthly mileage rows drawn for the viewed vehicle
MaxLogEntries == 2   \* maintenance logs drawn for the viewed vehicle
MaxInserts == 3      \* rows the handlers insert, over all tables

-----------------------------------------------------------------------------
(* Dates.                                                                  *)

\* date.isoformat(), as the number that orders like the text
isoformat(d) == d[1] * 10000 + d[2] * 100 + d[3]

\* pd.to_datetime(column).dt.date
to_date(n) == <<n \div 10000, (n \div 100) % 100, n % 100>>

\* date.__lt__ / date.__le__
date_lt(a, b) ==
    \/ a[1] < b[1]
    \/ a[1] = b[1] /\ a[2] < b[2]
    \/ a[1] = b[1] /\ a[2] = b[2] /\ a[3] < b[3]

date_le(a, b) == a = b \/ date_lt(a, b)

\* calendar.isleap
isleap(y) == y % 4 = 0 /\ (y % 100 # 0 \/ y % 400 = 0)

\* calendar.monthrange(y, m)[1]
days_in_month(y, m) ==
    IF m = 2 THEN (IF isleap(y) THEN 29 ELSE 28)
    ELSE IF m \in {4, 6, 9, 11} THEN 30 ELSE 31

Min(a, b) == IF a <= b THEN a ELSE b

Max(a, b) == IF a >= b THEN a ELSE b

\* d + relativedelta(months=1): the next month, the year carried, the day
\* clamped to the last day of that month
plus_one_month(d) ==
    LET m == IF d[2] = 12 THEN 1 ELSE d[2] + 1
        y == IF d[2] = 12 THEN d[1] + 1 ELSE d[1]
    IN  <<y, m, Min(d[3], days_in_month(y, m))>>

-----------------------------------------------------------------------------
(* Sequences from sets: ORDER BY and sums.                                 *)

\* tuples of numbers of one length, compared from the left
LexLE(a, b) ==
    \/ a = b
    \/ \E i \in 1..Len(a) : a[i] < b[i] /\ \A j \in 1..(i - 1) : a[j] = b[j]

RECURSIVE OrderBy(_, _)
\* the rows of S as a sequence ascending in key[r], a tuple; key is
\* injective on S
OrderBy(S, key) ==
    IF S = {} THEN <<>>
    ELSE LET r == CHOOSE x \in S : \A y \in S : LexLE(key[x], key[y])
         IN  <<r>> \o OrderBy(S \ {r}, key)

Reverse(s) == [i \in 1..Len(s) |-> s[Len(s) + 1 - i]]

RECURSIVE SumSeq(_)
\* Series.sum() of a sequence of numbers
SumSeq(s) == IF s = <<>> THEN 0 ELSE Head(s) + SumSeq(Tail(s))

\* a Python assignment x = v followed by the code F that reads x: v is
\* evaluated once
Assign(v, F(_)) == CHOOSE r \in {F(x) : x \in {v}} : TRUE

-----------------------------------------------------------------------------
(* Store reads (app3.py).                                                  *)

\* get_trucks_df()[trucks_df['id'] == truck_id].iloc[0]: the truck's row,
\* its date parsed to a date object
get_trucks_row(T, truck_id) ==
    LET t == CHOOSE t \in T : t.id = truck_id
    IN  [t EXCEPT !.purchase_date = to_date(t.purchase_date)]

\* SELECT * FROM monthly_mileages WHERE truck_id=? ORDER BY month_date,
\* then month_date parsed to date objects.  Rows of equal month_date come
\* in rowid order.
get_monthly_mileages_df(truck_id, M) ==
    LET rows == {m \in M : m.truck_id = truck_id}
        key == [m \in rows |-> <<m.month_date, m.id>>]
        s == OrderBy(rows, key)
    IN  [i \in 1..Len(s) |->
            [id |-> s[i].id, truck_id |-> s[i].truck_id,
             month_date |-> to_date(s[i].month_date),
             starting_mileage |-> s[i].starting_mileage,
             ending_mileage |-> s[i].ending_mileage]]

\* SELECT * FROM maintenance_logs WHERE truck_id=? ORDER BY date DESC,
\* then date parsed to date objects
AllTrucksLogsDf(truck_id, L) ==
    LET key == [l \in L |-> <<l.date, l.id>>]
        s == Reverse(OrderBy(L, key))
    IN  [i \in 1..Len(s) |-> [s[i] EXCEPT !.date = to_date(s[i].date)]]

get_maintenance_logs_df(truck_id, L) ==
    LET rows == {l \in L : l.truck_id = truck_id}
        key == [l \in rows |-> <<l.date, l.id>>]
        s == Reverse(OrderBy(rows, key))
    IN  [i \in 1..Len(s) |-> [s[i] EXCEPT !.date = to_date(s[i].date)]]

-----------------------------------------------------------------------------
(* show_vehicle_detail: the computed sections.                             *)

\* categories (the fixed vocabulary) and all_types, its flattening
categories ==
    [ENGINE |-> <<"Oil & Filter Change", "Air Filter Change",
                  "Fuel Filter Change", "Transmission Fluid",
                  "Engine Coolant", "Hose Replacement", "Belt Replacement",
                  "Battery Replacement">>,
     CHASSIS |-> <<"Tire Repair / Replacement", "Tire Rotation / Balance",
                   "Tire Alignment", "Brake Pad Replacement">>,
     MISC |-> <<"Windshield Wiper Repl.", "Bulb Replacement", "Other">>]

all_types == categories.ENGINE \o categories.CHASSIS \o categories.MISC

Range(s) == {s[i] : i \in 1..Len(s)}

\* monthly_df.sort_values('month_date')
SortDescending(df) ==
    LET key == [i \in 1..Len(df) |-> df[i].month_date \o <<i>>]
        order == Reverse(OrderBy(1..Len(df), key))
    IN  [p \in 1..Len(df) |-> df[order[p]]]

sort_values(df) ==
    LET key == [i \in 1..Len(df) |-> df[i].month_date \o <<i>>]
        order == OrderBy(1..Len(df), key)
    IN  [p \in 1..Len(df) |-> df[order[p]]]

\* (logs_df['date'] >= month_start) & (logs_df['date'] < month_end), with
\* month_end = month_start + relativedelta(months=1)
InclusiveEndMask(month_start, d) ==
    date_le(month_start, d) /\ date_le(d, plus_one_month(month_start))

month_mask(month_start, d) ==
    date_le(month_start, d) /\ date_lt(d, plus_one_month(month_start))

\* monthly_df['monthly_mileage'] =
\*     monthly_df['ending_mileage'] - monthly_df['starting_mileage']
ClampedMileage(m) ==
    IF m.ending_mileage < m.starting_mileage THEN 0
    ELSE m.ending_mileage - m.starting_mileage

monthly_mileage(m) == m.ending_mileage - m.starting_mileage

\* one row of the Cost Per Mile Summary table; counted records which logs
\* the mask selected
summary_row(m, logs_df) ==
    LET InMonth(l) == month_mask(m.month_date, l.date)
        sel == SelectSeq(logs_df, InMonth)
    IN  [id |-> m.id,
         month_date |-> m.month_date,
         starting_mileage |-> m.starting_mileage,
         ending_mileage |-> m.ending_mileage,
         monthly_mileage |-> monthly_mileage(m),
         monthly_cost |-> SumSeq([i \in 1..Len(sel) |-> sel[i].total_cost]),
         counted |-> {sel[i].id : i \in 1..Len(sel)}]

\* total_costs / annual_mileage if annual_mileage > 0 else 0.0
DivideWhenNonZero(total_costs, annual_mileage) ==
    IF annual_mileage # 0
    THEN [num |-> total_costs, den |-> annual_mileage]
    ELSE [num |-> 0, den |-> 1]

cost_per_mile(total_costs, annual_mileage) ==
    IF annual_mileage > 0
    THEN [num |-> total_costs, den |-> annual_mileage]
    ELSE [num |-> 0, den |-> 1]

\* annual_mileage, total_costs and cost_per_mile of the summary rows
SumEndingMileage(rows) ==
    LET annual_mileage == SumSeq([i \in 1..Len(rows) |-> rows[i].ending_mileage])
        total_costs == SumSeq([i \in 1..Len(rows) |-> rows[i].monthly_cost])
    IN  [annual_mileage |-> annual_mileage,
         total_costs |-> total_costs,
         cost_per_mile |-> cost_per_mile(total_costs, annual_mileage)]

annual_metrics(rows) ==
    LET annual_mileage == SumSeq([i \in 1..Len(rows) |-> rows[i].monthly_mileage])
        total_costs == SumSeq([i \in 1..Len(rows) |-> rows[i].monthly_cost])
    IN  [annual_mileage |-> annual_mileage,
         total_costs |-> total_costs,
         cost_per_mile |-> cost_per_mile(total_costs, annual_mileage)]

\* the inner loop of the breakdown: the position in monthly_df of the
\* first row whose interval holds the log's date (the break), 0 when the
\* loop ends without one
FirstMatchInclusiveEnd(monthly_df, d) ==
    LET hits == {i \in 1..Len(monthly_df) :
                    InclusiveEndMask(monthly_df[i].month_date, d)}
    IN  IF hits = {} THEN 0
        ELSE CHOOSE i \in hits : \A j \in hits : i <= j

first_match(monthly_df, d) ==
    LET hits == {i \in 1..Len(monthly_df) :
                    month_mask(monthly_df[i].month_date, d)}
    IN  IF hits = {} THEN 0
        ELSE CHOOSE i \in hits : \A j \in hits : i <= j

\* log['description'] in all_types
AnyDescription(description) == TRUE

in_all_types(description) == description \in Range(all_types)

\* The cells one log adds its total_cost to:
\* cost_summary.at[log['description'], columns[i]] += log['total_cost'].
\* .at addresses the cell by its labels, and columns[i] is a month date:
\* every column labelled with that date takes the addition.
cells_of_log(log, monthly_df) ==
    LET i == first_match(monthly_df, log.date)
    IN  IF in_all_types(log.description) /\ i # 0
        THEN {<<log.description, j>> : j \in
                 {j \in 1..Len(monthly_df) :
                     monthly_df[j].month_date = monthly_df[i].month_date}}
        ELSE {}

RECURSIVE add_costs(_, _, _, _)
\* the loop over logs_df.iterrows(): the k-th log's total_cost is added to
\* the cells it addresses, the later logs after it
add_costs(cost_summary, logs_df, adds, k) ==
    IF k > Len(logs_df) THEN cost_summary
    ELSE Assign([c \in DOMAIN cost_summary |->
                    IF c \in adds[k]
                    THEN cost_summary[c] + logs_df[k].total_cost
                    ELSE cost_summary[c]],
         LAMBDA next : add_costs(next, logs_df, adds, k + 1))

\* total_monthly = cost_summary.sum(axis=0): the sum of column j over all
\* rows of the table
EngineRowsOnly(cost_summary, j) ==
    SumSeq([k \in 1..Len(categories.ENGINE) |->
                cost_summary[<<categories.ENGINE[k], j>>]])

total_monthly(cost_summary, j) ==
    SumSeq([k \in 1..Len(all_types) |-> cost_summary[<<all_types[k], j>>]])

\* the Maintenance Cost Summary: cost_summary (description x column
\* position) filled with zeros and then added to log by log, its
\* 'Total Monthly Costs' row, and, per log, the cells it was added to
cost_breakdown(monthly_df, logs_df) ==
    LET n == Len(monthly_df)
        m == Len(logs_df)
    IN  Assign([k \in 1..m |-> cells_of_log(logs_df[k], monthly_df)],
        LAMBDA adds :
        Assign(add_costs([c \in Range(all_types) \X (1..n) |-> 0],
                         logs_df, adds, 1),
        LAMBDA cost_summary :
            [columns |-> [j \in 1..n |-> monthly_df[j].month_date],
             cost_summary |-> cost_summary,
             total_monthly |->
                [j \in 1..n |-> total_monthly(cost_summary, j)],
             added |-> [id \in {logs_df[k].id : k \in 1..m} |->
                          adds[CHOOSE k \in 1..m : logs_df[k].id = id]]]))

\* what a page shows when it computes nothing
Page(page, info) ==
    [page |-> page, error |-> "", truck_id |-> None, rows |-> <<>>,
     metrics |-> {}, breakdown |-> {}, info |-> info]

\* if not monthly_df.empty (lines 397 and 443)
AlwaysCompute(monthly_df) == TRUE

not_empty(monthly_df) == monthly_df # <<>>

\* show_vehicle_detail(truck_id): the truck's row is taken with .iloc[0],
\* an IndexError when no truck has the id; then the Cost Per Mile Summary
\* and the Maintenance Cost Summary, each computed only when the vehicle
\* has monthly mileage rows
show_vehicle_detail(truck_id, T, L, M) ==
    IF ~ \E t \in T : t.id = truck_id
    THEN [Page("Vehicle Detail", {}) EXCEPT
             !.error = "IndexError", !.truck_id = truck_id]
    ELSE
    Assign(get_monthly_mileages_df(truck_id, M), LAMBDA stored :
    Assign(get_maintenance_logs_df(truck_id, L), LAMBDA logs_df :
    Assign(IF not_empty(stored) THEN sort_values(stored) ELSE stored,
    LAMBDA monthly_df :
    Assign([i \in 1..Len(monthly_df) |-> summary_row(monthly_df[i], logs_df)],
    LAMBDA rows :
        [page |-> "Vehicle Detail",
         error |-> "",
         truck_id |-> truck_id,
         rows |-> IF not_empty(stored) THEN rows ELSE <<>>,
         metrics |-> IF not_empty(stored) THEN {annual_metrics(rows)} ELSE {},
         breakdown |-> IF not_empty(monthly_df)
                       THEN {cost_breakdown(monthly_df, logs_df)} ELSE {},
         info |-> IF not_empty(monthly_df) THEN {}
                  ELSE {"Add monthly mileage data to compute costs."}]))))

\* the page dispatch at the end of the script
render(page, selected, T, L, M) ==
    IF page = "Vehicle Detail"
    THEN IF selected # None
         THEN show_vehicle_detail(selected, T, L, M)
         ELSE Page(page, {"Please select a vehicle from the Fleet Overview page to view details."})
    ELSE Page(page, {})

-----------------------------------------------------------------------------
(* Store writes (app3.py).  AUTOINCREMENT gives a new row the id after the *)
(* table's sqlite_sequence entry, so an id is never given twice.           *)

\* the largest id among the rows of a table, 0 for an empty table
max_rowid(T) ==
    IF T = {} THEN 0 ELSE CHOOSE i \in {r.id : r \in T} : \A r \in T : r.id <= i

\* id INTEGER PRIMARY KEY without AUTOINCREMENT: one more than the largest
\* id now in the table
RowidAfterLargestStored(last, T) == max_rowid(T) + 1

\* id INTEGER PRIMARY KEY AUTOINCREMENT: one more than the largest id the
\* table ever held, which sqlite_sequence records (last)
autoincrement(last, T) == Max(last, max_rowid(T)) + 1

\* INSERT INTO trucks (...), commit
add_truck(T, id, make, model, purchase_date, mileage) ==
    T \cup {[id |-> id, make |-> make, model |-> model,
             purchase_date |-> isoformat(purchase_date), mileage |-> mileage]}

\* INSERT INTO maintenance_logs (...), commit
add_maintenance_log(L, id, truck_id, date, description, odometer, material_cost, labor_cost, total_cost) ==
    L \cup {[id |-> id, truck_id |-> truck_id, date |-> isoformat(date),
             description |-> description, odometer |-> odometer,
             material_cost |-> material_cost, labor_cost |-> labor_cost,
             total_cost |-> total_cost]}

\* INSERT INTO monthly_mileages (...), commit
add_monthly_mileage(M, id, truck_id, month_date, starting_mileage, ending_mileage) ==
    M \cup {[id |-> id, truck_id |-> truck_id,
             month_date |-> isoformat(month_date),
             starting_mileage |-> starting_mileage,
             ending_mileage |-> ending_mileage]}

-----------------------------------------------------------------------------
(* app.py, the first version of the application: its own file fleet.db     *)
(* with the tables trucks and expenses, one connection per script run.     *)
(* Its functions carry the prefix app_ here, app3.py having the names.     *)

MaxAppRows == 4      \* rows app.py inserts, over its two tables

AppPages == {"Add Truck", "View/Edit Trucks", "Manage Expenses"}

\* mileages typed into app.py's number inputs
AppMileages == {0, 1}

\* the store after the CREATE TABLE IF NOT EXISTS statements, and the
\* sidebar's first page
app_init ==
    [page |-> "Add Truck", trucks |-> {}, expenses |-> {},
     seq |-> [trucks |-> 0, expenses |-> 0]]

\* INSERT INTO trucks (make, model, purchase_date, mileage), commit
app_add_truck(a, make, model, mileage) ==
    [a EXCEPT !.trucks = @ \cup {[id |-> a.seq.trucks + 1, make |-> make,
                                  model |-> model, mileage |-> mileage]},
              !.seq.trucks = @ + 1]

\* UPDATE trucks SET make=?, model=?, purchase_date=?, mileage=? WHERE id=?
app_update_truck(a, truck_id, make, model, mileage) ==
    [a EXCEPT !.trucks = {IF t.id = truck_id
                          THEN [id |-> t.id, make |-> make, model |-> model,
                                mileage |-> mileage]
                          ELSE t : t \in a.trucks}]

\* DELETE FROM trucks WHERE id=?; DELETE FROM expenses WHERE truck_id=?;
\* one commit for both statements
AppDeleteTruckOnly(a, truck_id) ==
    [a EXCEPT !.trucks = {t \in @ : t.id # truck_id}]

app_delete_truck(a, truck_id) ==
    [a EXCEPT !.trucks = {t \in @ : t.id # truck_id},
              !.expenses = {e \in @ : e.truck_id # truck_id}]

\* INSERT INTO expenses (truck_id, date, description, cost), commit
app_add_expense(a, truck_id, description, cost) ==
    [a EXCEPT !.expenses = @ \cup {[id |-> a.seq.expenses + 1,
                                    truck_id |-> truck_id,
                                    description |-> description, cost |-> cost]},
              !.seq.expenses = @ + 1]

RECURSIVE app_sum_cost(_)
\* SELECT SUM(cost): the sum over the rows, over at least one row
app_sum_cost(E) ==
    IF E = {} THEN 0
    ELSE LET e == CHOOSE e \in E : TRUE
         IN  e.cost + app_sum_cost(E \ {e})

\* c.fetchone()[0] or 0.0: SUM is NULL (None) over no row, and None and 0
\* both give 0.0
app_get_total_expenses(a, truck_id) ==
    LET rows == {e \in a.expenses : e.truck_id = truck_id}
        fetched == IF rows = {} THEN {} ELSE {app_sum_cost(rows)}
    IN  IF fetched = {} \/ fetched = {0} THEN 0
        ELSE CHOOSE x \in fetched : TRUE

\* the app3.py and db.py stores, which app.py never opens
OtherStores == <<trucks, logs, mileages, seq, page_select, selected_truck,
                 view, vehicles, db_logs, edited_monthly>>

\* the sidebar's page selectbox
AppSelectPage ==
    /\ \E p \in AppPages : app' = [app EXCEPT !.page = p]
    /\ UNCHANGED OtherStores

\* "Add Truck": the row is inserted when make and model are not empty
AppAddTruck ==
    /\ app.page = "Add Truck"
    /\ app.seq.trucks + app.seq.expenses < MaxAppRows
    /\ \E make \in {"Ford", ""}, mileage \in AppMileages :
          app' = IF make # "" THEN app_add_truck(app, make, "Transit", mileage)
                 ELSE app
    /\ UNCHANGED OtherStores

\* "View/Edit Trucks", "Update" in a truck's expander
AppUpdateTruck ==
    /\ app.page = "View/Edit Trucks"
    /\ \E t \in app.trucks, new_mileage \in AppMileages :
          app' = app_update_truck(app, t.id, t.make, t.model, new_mileage)
    /\ UNCHANGED OtherStores

\* "View/Edit Trucks", "Delete" in a truck's expander
AppDeleteTruck ==
    /\ app.page = "View/Edit Trucks"
    /\ \E t \in app.trucks : app' = app_delete_truck(app, t.id)
    /\ UNCHANGED OtherStores

\* "Manage Expenses", "Add Expense" for the truck picked in the selectbox:
\* the row is inserted when the description is not empty
AppAddExpense ==
    /\ app.page = "Manage Expenses"
    /\ app.seq.trucks + app.seq.expenses < MaxAppRows
    /\ \E t \in app.trucks, description \in {"Repair", ""}, cost \in {0, 1, 2} :
          app' = IF description # ""
                 THEN app_add_expense(app, t.id, description, cost)
                 ELSE app
    /\ UNCHANGED OtherStores

NextApp ==
    \/ AppSelectPage
    \/ AppAddTruck
    \/ AppUpdateTruck
    \/ AppDeleteTruck
    \/ AppAddExpense

-----------------------------------------------------------------------------
(* The stored data the aggregation is checked on: vehicle 1 holds any      *)
(* ledger of up to MaxEntries rows and any log of up to MaxLogEntries      *)
(* rows over the dates below (month starts, a month end whose successor is *)
(* clamped, a year end); vehicle 2 holds one row of each, which must never *)
(* show in vehicle 1's tables.  Rows are drawn in one order only: their    *)
(* ids do not enter the computation.                                       *)

MonthDates == {<<2023, 12, 1>>, <<2024, 1, 1>>, <<2024, 1, 31>>, <<2024, 2, 1>>}

LogDates == {<<2023, 12, 31>>, <<2024, 1, 1>>, <<2024, 1, 31>>,
             <<2024, 2, 1>>, <<2024, 2, 29>>}

\* <<starting_mileage, ending_mileage>>
Readings == {<<0, 2>>, <<2, 0>>}

\* the last is not in the vocabulary: the match is exact
Descriptions == <<"Oil & Filter Change", "Other", "oil & filter change">>

\* <<material_cost, labor_cost>>
Costs == {<<2, 1>>}

EntryChoices == MonthDates \X Readings

LogChoices == LogDates \X (1..Len(Descriptions)) \X Costs

EntryKey(c) == c[1] \o c[2]

LogKey(c) == c[1] \o <<c[2]>> \o c[3]

Ledgers ==
    UNION {{f \in [1..n -> EntryChoices] :
               \A i \in 1..(n - 1) : LexLE(EntryKey(f[i]), EntryKey(f[i + 1]))}
           : n \in 0..MaxEntries}

LogBooks ==
    UNION {{f \in [1..n -> LogChoices] :
               \A i \in 1..(n - 1) : LexLE(LogKey(f[i]), LogKey(f[i + 1]))}
           : n \in 0..MaxLogEntries}

RECURSIVE InsertEntries(_, _, _)
InsertEntries(M, f, truck_id) ==
    IF f = <<>> THEN M
    ELSE LET n == Len(f)
             c == f[n]
         IN  add_monthly_mileage(InsertEntries(M, SubSeq(f, 1, n - 1), truck_id),
                                 n, truck_id, c[1], c[2][1], c[2][2])

RECURSIVE InsertLogs(_, _, _)
InsertLogs(L, f, truck_id) ==
    IF f = <<>> THEN L
    ELSE LET n == Len(f)
             c == f[n]
         IN  add_maintenance_log(InsertLogs(L, SubSeq(f, 1, n - 1), truck_id),
                                 n, truck_id, c[1], Descriptions[c[2]], 0,
                                 c[3][1], c[3][2], c[3][1] + c[3][2])

InitAgg ==
    /\ trucks = add_truck(add_truck({}, 1, "Ford", "Transit", <<2023, 12, 1>>, 0),
                          2, "Volvo", "VNL", <<2023, 12, 1>>, 0)
    /\ \E f \in Ledgers :
          mileages = add_monthly_mileage(InsertEntries({}, f, 1), Len(f) + 1,
                                         2, <<2024, 1, 1>>, 0, 2)
    /\ \E f \in LogBooks :
          logs = add_maintenance_log(InsertLogs({}, f, 1), Len(f) + 1,
                                     2, <<2024, 1, 31>>, "Other", 0, 2, 1, 3)
    /\ seq = [trucks |-> 2, maintenance_logs |-> Cardinality(logs),
              monthly_mileages |-> Cardinality(mileages)]
    /\ page_select = "Fleet Overview"
    /\ selected_truck = None
    /\ view = render(page_select, selected_truck, trucks, logs, mileages)
    /\ vehicles = 0
    /\ db_logs = {}
    /\ app = app_init
    /\ edited_monthly = NoEditorRead

-----------------------------------------------------------------------------
(* Navigation (app3.py).                                                   *)

\* Fleet Overview, "View Details" on a truck's card: the session is set
\* and the script run again; the store is only read
ViewDetailsWriting ==
    /\ page_select = "Fleet Overview"
    /\ \E t \in trucks :
          /\ selected_truck' = t.id
          /\ page_select' = "Vehicle Detail"
          /\ trucks' = {IF r.id = t.id THEN [r EXCEPT !.mileage = 0] ELSE r :
                           r \in trucks}
    /\ UNCHANGED <<logs, mileages, seq, vehicles, db_logs, app, edited_monthly>>
    /\ view' = render(page_select', selected_truck', trucks', logs', mileages')

ViewDetails ==
    /\ page_select = "Fleet Overview"
    /\ \E t \in trucks :
          /\ selected_truck' = t.id
          /\ page_select' = "Vehicle Detail"
    /\ UNCHANGED <<trucks, logs, mileages, seq, vehicles, db_logs, app, edited_monthly>>
    /\ view' = render(page_select', selected_truck', trucks', logs', mileages')

\* Vehicle Detail, "Back to Fleet Overview"; the button is drawn only
\* after the truck's row was found
BackToFleetOverview ==
    /\ page_select = "Vehicle Detail"
    /\ selected_truck # None
    /\ \E t \in trucks : t.id = selected_truck
    /\ selected_truck' = None
    /\ page_select' = "Fleet Overview"
    /\ UNCHANGED <<trucks, logs, mileages, seq, vehicles, db_logs, app, edited_monthly>>
    /\ view' = render(page_select', selected_truck', trucks', logs', mileages')

NextAgg == ViewDetails \/ BackToFleetOverview

SpecAgg == InitAgg /\ [][NextAgg]_vars

-----------------------------------------------------------------------------
(* The application's handlers (app3.py) and db.py's sample loader, from    *)
(* an empty store.  What the user can type is drawn from the sets below.   *)

Pages == {"Fleet Overview", "Add Truck", "Manage Trucks", "Vehicle Detail"}

\* str.strip() of the texts typed into the required fields
NoStrip(text) == text

strip(text) ==
    CASE text = " Ford " -> "Ford"
      [] text = " Other " -> "Other"
      [] text = "   " -> ""
      [] OTHER -> text

\* odometer readings and mileages typed in (min_value=0.0)
Odometers == {0, 1}

\* material and labour costs typed in (min_value=0.0)
Amounts == {0, 1}

\* the date typed into the forms and the ledger editor
FormDate == <<2024, 1, 1>>

\* rows inserted so far, over all tables and sample-data runs
Inserts == seq.trucks + seq.maintenance_logs + seq.monthly_mileages + vehicles

rerun(T, L, M) == render(page_select', selected_truck', T, L, M)

Init ==
    /\ trucks = {}
    /\ logs = {}
    /\ mileages = {}
    /\ seq = [trucks |-> 0, maintenance_logs |-> 0, monthly_mileages |-> 0]
    /\ page_select = "Fleet Overview"
    /\ selected_truck = None
    /\ view = render(page_select, selected_truck, trucks, logs, mileages)
    /\ vehicles = 0
    /\ db_logs = {}
    /\ app = app_init
    /\ edited_monthly = NoEditorRead

\* the sidebar's page selectbox (key page_select)
SelectPage ==
    /\ \E p \in Pages : page_select' = p
    /\ UNCHANGED <<trucks, logs, mileages, seq, selected_truck, vehicles, db_logs, app, edited_monthly>>
    /\ view' = rerun(trucks, logs, mileages)

\* show_add_truck, "Add Truck": the row is inserted when make and model
\* are not blank, and the script runs again; otherwise nothing is written
\* and the page shows st.error's message
AddTruck ==
    /\ page_select = "Add Truck"
    /\ Inserts < MaxInserts
    /\ UNCHANGED <<logs, mileages, page_select, selected_truck, vehicles, db_logs, app, edited_monthly>>
    /\ \E make \in {" Ford ", "   "}, model \in {"Transit", ""}, mileage \in Odometers :
          IF strip(make) # "" /\ strip(model) # ""
          THEN /\ trucks' = add_truck(trucks, autoincrement(seq.trucks, trucks), strip(make),
                                      strip(model), FormDate, mileage)
               /\ seq' = [seq EXCEPT !.trucks = autoincrement(@, trucks)]
               /\ view' = rerun(trucks', logs, mileages)
          ELSE /\ UNCHANGED <<trucks, seq>>
               /\ view' = [render(page_select, selected_truck, trucks, logs, mileages)
                              EXCEPT !.error = "Make and Model are required."]

\* UPDATE trucks SET ..., mileage=? WHERE id=?, commit
UpdateSwappingMakeModel(T, truck_id, make, model, purchase_date, mileage) ==
    {IF t.id = truck_id
     THEN [id |-> t.id, make |-> model, model |-> make,
           purchase_date |-> isoformat(purchase_date), mileage |-> mileage]
     ELSE t : t \in T}

update_truck(T, truck_id, make, model, purchase_date, mileage) ==
    {IF t.id = truck_id
     THEN [id |-> t.id, make |-> make, model |-> model,
           purchase_date |-> isoformat(purchase_date), mileage |-> mileage]
     ELSE t : t \in T}

RECURSIVE save_changes(_, _, _)
\* for idx, row in edited_df.iterrows(): update_truck when the row differs
\* from the stored one
save_changes(T, ids, edited) ==
    IF ids = {} THEN T
    ELSE LET id == CHOOSE id \in ids : TRUE
             orig_row == get_trucks_row(T, id)
         IN  save_changes(IF orig_row.mileage # edited[id]
                          THEN update_truck(T, id, orig_row.make,
                                            orig_row.model,
                                            orig_row.purchase_date, edited[id])
                          ELSE T,
                          ids \ {id}, edited)

\* show_manage_trucks, "Save Changes": the mileage column of the editor,
\* edited or not in each row
SaveChanges ==
    /\ page_select = "Manage Trucks"
    /\ trucks # {}
    /\ \E edited \in [{t.id : t \in trucks} -> Odometers] :
          trucks' = save_changes(trucks, {t.id : t \in trucks}, edited)
    /\ UNCHANGED <<logs, mileages, seq, page_select, selected_truck, vehicles, db_logs, app, edited_monthly>>
    /\ view' = rerun(trucks', logs, mileages)

\* DELETE FROM trucks WHERE id=?, commit.  get_connection never issues
\* PRAGMA foreign_keys = ON, and SQLite enforces no foreign key without it:
\* the ON DELETE CASCADE clauses of the schema do nothing.
delete_truck(T, L, M, truck_id) ==
    [trucks |-> {t \in T : t.id # truck_id},
     logs |-> L,
     mileages |-> M]

\* show_manage_trucks, "Delete Selected Truck"
DeleteSelectedTruck ==
    /\ page_select = "Manage Trucks"
    /\ \E t \in trucks :
          LET after == delete_truck(trucks, logs, mileages, t.id)
          IN  /\ trucks' = after.trucks
              /\ logs' = after.logs
              /\ mileages' = after.mileages
    /\ UNCHANGED <<seq, page_select, selected_truck, vehicles, db_logs, app, edited_monthly>>
    /\ view' = rerun(trucks', logs', mileages')

\* the Vehicle Detail page was drawn for a stored truck: its forms and
\* editors are on display
DetailOf(t) ==
    /\ page_select = "Vehicle Detail"
    /\ selected_truck = t.id
    /\ t \in trucks

\* UPDATE monthly_mileages SET truck_id=?, month_date=?, ... WHERE id=?
update_monthly_mileage(M, m_id, truck_id, month_date, starting_mileage, ending_mileage) ==
    {IF m.id = m_id
     THEN [id |-> m.id, truck_id |-> truck_id,
           month_date |-> isoformat(month_date),
           starting_mileage |-> starting_mileage,
           ending_mileage |-> ending_mileage]
     ELSE m : m \in M}

\* DELETE FROM monthly_mileages WHERE id=?
delete_monthly_mileage(M, m_id) == {m \in M : m.id # m_id}

RECURSIVE delete_monthly_mileages(_, _)
\* for d in to_delete: delete_monthly_mileage(int(d))
delete_monthly_mileages(M, to_delete) ==
    IF to_delete = {} THEN M
    ELSE LET d == CHOOSE d \in to_delete : TRUE
         IN  delete_monthly_mileages(delete_monthly_mileage(M, d),
                                     to_delete \ {d})

\* The ledger editor's rows.  A stored row keeps its id and its delete
\* flag is False or True; a row the user added has no id (NaN), and its
\* delete flag is None until the checkbox is touched.
EditedStoredRows(monthly_df) ==
    [1..Len(monthly_df) ->
        [delete : BOOLEAN, ending_mileage : Odometers]]

NewRows ==
    {<<>>} \cup
    {<<[id |-> None, delete |-> d, month_date |-> FormDate, starting_mileage |-> 0,
        ending_mileage |-> e]>> : d \in {"None", "False", "True"}, e \in Odometers}

\* edited_monthly as the editor returns it for the stored rows: the id,
\* the date and the starting mileage as stored, the edited cells
editor_rows(monthly_df, edited) ==
    [i \in 1..Len(monthly_df) |->
        [id |-> monthly_df[i].id,
         delete |-> IF edited[i].delete THEN "True" ELSE "False",
         month_date |-> monthly_df[i].month_date,
         starting_mileage |-> monthly_df[i].starting_mileage,
         ending_mileage |-> edited[i].ending_mileage]]

\* the frames the editor can hold for the stored rows monthly_df
editor_frames(monthly_df) ==
    {editor_rows(monthly_df, edited) \o new :
        edited \in EditedStoredRows(monthly_df), new \in NewRows}

\* the edits of the stored rows, and the added rows, in the frame rows
stored_edits(monthly_df, rows) ==
    [i \in 1..Len(monthly_df) |->
        [delete |-> rows[i].delete = "True",
         ending_mileage |-> rows[i].ending_mileage]]

added_rows(monthly_df, rows) == SubSeq(rows, Len(monthly_df) + 1, Len(rows))

RECURSIVE save_monthly_updates(_, _, _, _)
\* the loop over the stored rows not flagged: update_monthly_mileage
save_monthly_updates(M, monthly_df, edited, truck_id) ==
    IF monthly_df = <<>> THEN M
    ELSE LET n == Len(monthly_df)
             before == save_monthly_updates(M, SubSeq(monthly_df, 1, n - 1),
                                            edited, truck_id)
         IN  IF edited[n].delete THEN before
             ELSE update_monthly_mileage(before, monthly_df[n].id, truck_id,
                                         monthly_df[n].month_date,
                                         monthly_df[n].starting_mileage,
                                         edited[n].ending_mileage)

\* The body of "Save Monthly Changes" on the editor's rows: the rows whose
\* flag == True and that have an id are deleted; of the rows whose flag ==
\* False those without id are inserted and the others updated.  last is
\* the table's sqlite_sequence entry.
save_monthly_changes(M, last, truck_id, monthly_df, edited, new) ==
    LET to_delete == {monthly_df[i].id :
                         i \in {i \in 1..Len(monthly_df) : edited[i].delete}}
        kept == delete_monthly_mileages(M, to_delete)
        updated == save_monthly_updates(kept, monthly_df, edited, truck_id)
        adds == new # <<>> /\ new[1].delete = "False"
    IN  [adds |-> adds,
         mileages |-> IF adds
                      THEN add_monthly_mileage(updated,
                               autoincrement(last, updated), truck_id,
                               new[1].month_date, new[1].starting_mileage,
                               new[1].ending_mileage)
                      ELSE updated,
         last |-> IF adds THEN autoincrement(last, updated) ELSE last]

\* "Save Monthly Changes", pressed after any edits of the ledger editor
SaveMonthlyChanges ==
    /\ \E t \in trucks :
        /\ DetailOf(t)
        /\ \E monthly_df \in {get_monthly_mileages_df(t.id, mileages)} :
              \E edited \in EditedStoredRows(monthly_df), new \in NewRows :
                 \E saved \in {save_monthly_changes(mileages, seq.monthly_mileages,
                                                    t.id, monthly_df, edited, new)} :
                     /\ saved.adds => Inserts < MaxInserts
                     /\ mileages' = saved.mileages
                     /\ seq' = [seq EXCEPT !.monthly_mileages = saved.last]
    /\ UNCHANGED <<trucks, logs, page_select, selected_truck, vehicles, db_logs, app, edited_monthly>>
    /\ view' = rerun(trucks, logs, mileages')

\* The Vehicle Detail page of vehicle 1 with edits in its ledger editor:
\* vehicle 1 holds any ledger of up to MaxEntries rows, vehicle 2 one row,
\* and the editor shows vehicle 1's rows with any of the edits above.
InitLedger ==
    /\ trucks = add_truck(add_truck({}, 1, "Ford", "Transit", <<2023, 12, 1>>, 0),
                          2, "Volvo", "VNL", <<2023, 12, 1>>, 0)
    /\ \E f \in Ledgers :
          mileages = add_monthly_mileage(InsertEntries({}, f, 1), Len(f) + 1,
                                         2, <<2024, 1, 1>>, 0, 2)
    /\ logs = {}
    /\ seq = [trucks |-> 2, maintenance_logs |-> 0,
              monthly_mileages |-> Cardinality(mileages)]
    /\ page_select = "Vehicle Detail"
    /\ selected_truck = 1
    /\ view = render(page_select, selected_truck, trucks, logs, mileages)
    /\ vehicles = 0
    /\ db_logs = {}
    /\ app = app_init
    /\ \E rows \in Assign(get_monthly_mileages_df(1, mileages),
                           LAMBDA monthly_df : editor_frames(monthly_df)) :
          edited_monthly = [truck_id |-> 1, rows |-> rows]

\* "Save Monthly Changes", pressed on the edits the editor holds
SaveEditorRows ==
    /\ edited_monthly # NoEditorRead
    /\ \E t \in trucks :
        /\ DetailOf(t)
        /\ t.id = edited_monthly.truck_id
        /\ \E saved \in {Assign(get_monthly_mileages_df(t.id, mileages),
                LAMBDA monthly_df :
                    save_monthly_changes(mileages, seq.monthly_mileages, t.id,
                        monthly_df,
                        stored_edits(monthly_df, edited_monthly.rows),
                        added_rows(monthly_df, edited_monthly.rows)))} :
              /\ mileages' = saved.mileages
              /\ seq' = [seq EXCEPT !.monthly_mileages = saved.last]
    /\ edited_monthly' = NoEditorRead
    /\ UNCHANGED <<trucks, logs, page_select, selected_truck, vehicles, db_logs, app>>
    /\ view' = rerun(trucks, logs, mileages')

NextLedger == SaveEditorRows

\* total_cost = material_cost + labor_cost (line 502)
form_total_cost(material_cost, labor_cost) == material_cost + labor_cost

\* if odometer > row['mileage'] (line 507)
AnyReading(odometer, mileage) == TRUE

odometer_is_higher(odometer, mileage) == odometer > mileage

\* "Add Log": with a description that is not blank the log is inserted,
\* and the truck's mileage is raised to the odometer reading when that is
\* higher; nothing is written otherwise
AddLog ==
    /\ Inserts < MaxInserts
    /\ UNCHANGED <<mileages, page_select, selected_truck, vehicles, db_logs, app, edited_monthly>>
    /\ \E t \in trucks :
        /\ DetailOf(t)
        /\ \E description \in {" Other ", "   "}, odometer \in Odometers,
              material_cost \in Amounts, labor_cost \in Amounts :
             IF strip(description) # ""
             THEN /\ logs' = add_maintenance_log(logs, autoincrement(seq.maintenance_logs, logs),
                                t.id, FormDate, strip(description), odometer,
                                material_cost, labor_cost,
                                form_total_cost(material_cost, labor_cost))
                  /\ seq' = [seq EXCEPT !.maintenance_logs = autoincrement(@, logs)]
                  /\ trucks' =
                        LET row == get_trucks_row(trucks, t.id)
                        IN  IF odometer_is_higher(odometer, row.mileage)
                            THEN update_truck(trucks, t.id, row.make, row.model,
                                              row.purchase_date, odometer)
                            ELSE trucks
                  /\ view' = rerun(trucks', logs', mileages)
             ELSE /\ UNCHANGED <<logs, seq, trucks>>
                  /\ view' = [render(page_select, selected_truck, trucks, logs, mileages)
                                 EXCEPT !.error = "Description is required."]

\* "Add Log" when update_truck raises (sqlite3 could not bind a value or
\* could not write: the database is locked, the disk is full):
\* add_maintenance_log has committed the log on its own connection before
\* update_truck opens another, so the log stays and the mileage is not
\* raised; the script stops at the exception, without st.rerun(), below
\* the sections it had rendered from the store as it was
AddLogRolledBack ==
    /\ Inserts < MaxInserts
    /\ \E t \in trucks :
        /\ DetailOf(t)
        /\ \E odometer \in Odometers :
              odometer_is_higher(odometer, get_trucks_row(trucks, t.id).mileage)
    /\ UNCHANGED <<trucks, logs, seq, mileages, page_select, selected_truck,
                   vehicles, db_logs, app, edited_monthly>>
    /\ view' = [render(page_select, selected_truck, trucks, logs, mileages)
                   EXCEPT !.error = "update_truck raised"]

AddLogUpdateFails ==
    /\ Inserts < MaxInserts
    /\ \E t \in trucks :
        /\ DetailOf(t)
        /\ \E description \in {" Other "}, odometer \in Odometers,
              material_cost \in Amounts, labor_cost \in Amounts :
             /\ strip(description) # ""
             /\ odometer_is_higher(odometer, get_trucks_row(trucks, t.id).mileage)
             /\ logs' = add_maintenance_log(logs, autoincrement(seq.maintenance_logs, logs),
                                t.id, FormDate, strip(description), odometer,
                                material_cost, labor_cost,
                                form_total_cost(material_cost, labor_cost))
             /\ seq' = [seq EXCEPT !.maintenance_logs = autoincrement(@, logs)]
    /\ UNCHANGED <<trucks, mileages, page_select, selected_truck, vehicles,
                   db_logs, app, edited_monthly>>
    /\ view' = [render(page_select, selected_truck, trucks, logs, mileages)
                   EXCEPT !.error = "update_truck raised"]

\* UPDATE maintenance_logs SET truck_id=?, ..., total_cost=? WHERE id=?
update_maintenance_log(L, log_id, truck_id, date, description, odometer, material_cost, labor_cost, total_cost) ==
    {IF l.id = log_id
     THEN [id |-> l.id, truck_id |-> truck_id, date |-> isoformat(date),
           description |-> description, odometer |-> odometer,
           material_cost |-> material_cost, labor_cost |-> labor_cost,
           total_cost |-> total_cost]
     ELSE l : l \in L}

\* DELETE FROM maintenance_logs WHERE id=?
delete_maintenance_log(L, log_id) == {l \in L : l.id # log_id}

RECURSIVE delete_maintenance_logs(_, _)
\* for d in to_delete: delete_maintenance_log(int(d))
delete_maintenance_logs(L, to_delete) ==
    IF to_delete = {} THEN L
    ELSE LET d == CHOOSE d \in to_delete : TRUE
         IN  delete_maintenance_logs(delete_maintenance_log(L, d),
                                     to_delete \ {d})

\* The log editor's rows (num_rows fixed: no row is added): the delete
\* flag and the two cost columns, edited or not; total_cost is disabled
\* and shows the stored value.
EditedLogs(logs_df) ==
    [1..Len(logs_df) ->
        [delete : BOOLEAN, material_cost : Amounts, labor_cost : Amounts]]

\* total = r['material_cost'] + r['labor_cost'] (line 550)
StoredTotal(r, stored) == stored.total_cost

row_total(r, stored) == r.material_cost + r.labor_cost

RECURSIVE save_log_updates(_, _, _, _)
\* the loop over the rows not flagged: update_maintenance_log with the
\* total computed from the row's costs
save_log_updates(L, logs_df, edited, truck_id) ==
    IF logs_df = <<>> THEN L
    ELSE LET n == Len(logs_df)
             before == save_log_updates(L, SubSeq(logs_df, 1, n - 1),
                                        edited, truck_id)
         IN  IF edited[n].delete THEN before
             ELSE update_maintenance_log(before, logs_df[n].id, truck_id,
                                         logs_df[n].date,
                                         logs_df[n].description,
                                         logs_df[n].odometer,
                                         edited[n].material_cost,
                                         edited[n].labor_cost,
                                         row_total(edited[n], logs_df[n]))

\* "Save Log Changes" (shown when the truck has logs)
SaveLogChanges ==
    /\ \E t \in trucks :
        /\ DetailOf(t)
        /\ LET logs_df == get_maintenance_logs_df(t.id, logs)
           IN  /\ logs_df # <<>>
               /\ \E edited \in EditedLogs(logs_df) :
                     LET to_delete == {logs_df[i].id :
                                          i \in {i \in 1..Len(logs_df) : edited[i].delete}}
                         kept == delete_maintenance_logs(logs, to_delete)
                     IN  logs' = save_log_updates(kept, logs_df, edited, t.id)
    /\ UNCHANGED <<trucks, mileages, seq, page_select, selected_truck, vehicles, db_logs, app, edited_monthly>>
    /\ view' = rerun(trucks, logs', mileages)

\* db.py, insert_sample_data: one vehicle (INSERT OR IGNORE on a table
\* with no unique column always inserts; vehicle_id = c.lastrowid) and
\* two maintenance logs for it, in db.py's own schema (vehicle_id)
sample_logs(vehicle_id, last_id) ==
    {[id |-> last_id + 1, vehicle_id |-> vehicle_id,
      date |-> isoformat(<<2021, 6, 1>>), description |-> "Oil & Filter Change",
      odometer |-> 65000, material_cost |-> 25, labor_cost |-> 10,
      total_cost |-> 35],
     [id |-> last_id + 2, vehicle_id |-> vehicle_id,
      date |-> isoformat(<<2021, 6, 1>>), description |-> "Air Filter Change",
      odometer |-> 65000, material_cost |-> 10, labor_cost |-> 5,
      total_cost |-> 15]}

insert_sample_data ==
    /\ Inserts < MaxInserts
    /\ vehicles' = vehicles + 1
    /\ db_logs' = db_logs \cup sample_logs(vehicles + 1, Cardinality(db_logs))
    /\ UNCHANGED <<trucks, logs, mileages, seq, page_select, selected_truck, view, app, edited_monthly>>

Next ==
    \/ SelectPage
    \/ ViewDetails
    \/ BackToFleetOverview
    \/ AddTruck
    \/ SaveChanges
    \/ DeleteSelectedTruck
    \/ SaveMonthlyChanges
    \/ AddLog
    \/ AddLogUpdateFails
    \/ SaveLogChanges
    \/ insert_sample_data

Spec == Init /\ [][Next]_vars

\* app.py on its own store
SpecApp == Init /\ [][NextApp]_vars

\* the ledger editor's save handler on drawn ledgers and edits
SpecLedger == InitLedger /\ [][NextLedger]_vars

-----------------------------------------------------------------------------
(* Stating the claims: the stored rows of the vehicle on display, and the  *)
(* calendar month on the stored (ISO) dates.                               *)

\* the messages a form shows when a required field is blank
FormErrors == {"Make and Model are required.", "Description is required."}

\* the Vehicle Detail page of an existing vehicle is on display
DetailShown == view.page = "Vehicle Detail" /\ view.error = ""

LogsOf(truck_id) == {l \in logs : l.truck_id = truck_id}

EntriesOf(truck_id) == {m \in mileages : m.truck_id = truck_id}

MonthLengths == <<31, 28, 31, 30, 31, 30, 31, 31, 30, 31, 30, 31>>

LengthOfMonth(y, m) ==
    IF m = 2 /\ y % 4 = 0 /\ (y % 100 # 0 \/ y % 400 = 0) THEN 29
    ELSE MonthLengths[m]

\* the ISO date one calendar month after the ISO date n: the same day of
\* the next month, or that month's last day when it has no such day
OneCalendarMonthAfter(n) ==
    LET y == n \div 10000
        m == (n \div 100) % 100
        d == n % 100
        ny == IF m = 12 THEN y + 1 ELSE y
        nm == IF m = 12 THEN 1 ELSE m + 1
        last == LengthOfMonth(ny, nm)
    IN  ny * 10000 + nm * 100 + (IF d > last THEN last ELSE d)

\* d lies in [month_start, month_start + 1 calendar month)
InMonthInterval(month_start, d) ==
    month_start <= d /\ d < OneCalendarMonthAfter(month_start)

RECURSIVE TotalCostOf(_)
TotalCostOf(S) ==
    IF S = {} THEN 0
    ELSE LET l == CHOOSE l \in S : TRUE
         IN  l.total_cost + TotalCostOf(S \ {l})

\* the summary rows of a stored monthly mileage entry
RowsOf(m) == {i \in DOMAIN view.rows : view.rows[i].id = m.id}

\* the summary rows that count a log
RowsCounting(l) == {i \in DOMAIN view.rows : l.id \in view.rows[i].counted}

\* C1: in the monthly summary every maintenance log is counted in the
\* monthly_cost of at most one row, whatever monthly mileage entries the
\* vehicle has stored.
C1_AtMostOneRow ==
    DetailShown =>
        \A l \in LogsOf(view.truck_id) : Cardinality(RowsCounting(l)) <= 1

\* C2: every monthly mileage entry of the vehicle has a row, and the row's
\* monthly_cost is the sum of total_cost over exactly the vehicle's logs
\* dated in [month_start, month_start + 1 calendar month).
C2_MonthlyCostIsIntervalSum ==
    DetailShown =>
        \A m \in EntriesOf(view.truck_id) :
            /\ RowsOf(m) # {}
            /\ \A i \in RowsOf(m) :
                  LET in == {l \in LogsOf(view.truck_id) :
                                InMonthInterval(m.month_date, l.date)}
                  IN  /\ view.rows[i].counted = {l.id : l \in in}
                      /\ view.rows[i].monthly_cost = TotalCostOf(in)

\* a row that counts a log and leaves out one of the vehicle's logs dated
\* on the interval's end, while another vehicle has a log in the interval
C2_Witness ==
    /\ DetailShown
    /\ \E i \in DOMAIN view.rows :
          /\ view.rows[i].monthly_cost > 0
          /\ \E l \in LogsOf(view.truck_id) :
                /\ l.date = OneCalendarMonthAfter(isoformat(view.rows[i].month_date))
                /\ l.id \notin view.rows[i].counted
          /\ \E l \in logs :
                /\ l.truck_id # view.truck_id
                /\ InMonthInterval(isoformat(view.rows[i].month_date), l.date)

\* C3: with entries for two consecutive months N and N+1, a log dated on
\* month_start of N+1 is counted in the row of N+1 and not in the row of N.
C3_BoundaryLogInLaterMonth ==
    DetailShown =>
        \A m1, m2 \in EntriesOf(view.truck_id) :
            m2.month_date = OneCalendarMonthAfter(m1.month_date) =>
                \A l \in LogsOf(view.truck_id) :
                    l.date = m2.month_date =>
                        /\ \A i \in RowsOf(m2) : l.id \in view.rows[i].counted
                        /\ \A i \in RowsOf(m1) : l.id \notin view.rows[i].counted
                        /\ RowsOf(m1) # {} /\ RowsOf(m2) # {}

C3_Witness ==
    /\ DetailShown
    /\ \E m1, m2 \in EntriesOf(view.truck_id) :
          /\ m2.month_date = OneCalendarMonthAfter(m1.month_date)
          /\ \E l \in LogsOf(view.truck_id) :
                /\ l.date = m2.month_date
                /\ l.total_cost > 0
                /\ \E i \in RowsOf(m2) : view.rows[i].monthly_cost = l.total_cost

\* the ids AUTOINCREMENT has given to trucks that are no longer stored:
\* the deleted vehicles
DeletedTrucks == (1..seq.trucks) \ {t.id : t \in trucks}

\* C4: after a vehicle is deleted, no maintenance log and no monthly
\* mileage entry that references the deleted vehicle's id remains in the
\* store.
C4_NoRowsOfDeletedTruck ==
    \A id \in DeletedTrucks : LogsOf(id) = {} /\ EntriesOf(id) = {}

\* C5: after any sequence of 'Add Log', 'Save Log Changes' and
\* insert_sample_data, every stored maintenance log has
\* total_cost = material_cost + labor_cost.
C5_TotalIsMaterialPlusLabor ==
    \A l \in logs \cup db_logs : l.total_cost = l.material_cost + l.labor_cost

\* a stored log of the application whose two costs are both positive,
\* next to the sample logs of db.py
C5_Witness ==
    /\ db_logs # {}
    /\ \E l \in logs : l.material_cost > 0 /\ l.labor_cost > 0
                       /\ l.total_cost = 2

RECURSIVE SumOver(_, _)
\* the sum of f[i] over the i in S
SumOver(S, f) ==
    IF S = {} THEN 0
    ELSE LET i == CHOOSE i \in S : TRUE
         IN  f[i] + SumOver(S \ {i}, f)

\* C6: for a non-empty summary, annual_mileage is the sum of the rows'
\* monthly_mileage and total_cost the sum of the rows' monthly_cost.
C6_AnnualSums ==
    (DetailShown /\ view.rows # <<>>) =>
        /\ view.metrics # {}
        /\ \A a \in view.metrics :
              /\ a.annual_mileage =
                    SumOver(DOMAIN view.rows,
                            [i \in DOMAIN view.rows |-> view.rows[i].monthly_mileage])
              /\ a.total_costs =
                    SumOver(DOMAIN view.rows,
                            [i \in DOMAIN view.rows |-> view.rows[i].monthly_cost])

\* two rows of different mileage, one of them negative, and costs in both
C6_Witness ==
    /\ DetailShown
    /\ Len(view.rows) = 2
    /\ view.rows[1].monthly_mileage # view.rows[2].monthly_mileage
    /\ view.rows[1].monthly_cost > 0 /\ view.rows[2].monthly_cost > 0
    /\ \E a \in view.metrics : a.total_costs > view.rows[1].monthly_cost

\* C7: cost_per_mile is total_cost / annual_mileage when annual_mileage > 0
\* and 0.0 otherwise (zero or negative annual_mileage); no error is raised.
C7_CostPerMile ==
    (DetailShown /\ view.rows # <<>>) =>
        /\ view.metrics # {}
        /\ \A a \in view.metrics :
              /\ a.cost_per_mile.den # 0
              /\ a.annual_mileage > 0 =>
                    a.cost_per_mile.num * a.annual_mileage
                        = a.total_costs * a.cost_per_mile.den
              /\ a.annual_mileage <= 0 => a.cost_per_mile.num = 0

\* costs over a negative annual mileage
C7_Witness ==
    /\ DetailShown
    /\ \E a \in view.metrics : a.annual_mileage < 0 /\ a.total_costs > 0

\* C8 as stated: for a vehicle with no monthly mileage entries the annual
\* metrics are produced and are annual_mileage = 0, total_cost = 0.0,
\* cost_per_mile = 0.0.
C8_MetricsOfEmptySummaryAreZero ==
    (DetailShown /\ EntriesOf(view.truck_id) = {}) =>
        \E a \in view.metrics :
            /\ a.annual_mileage = 0
            /\ a.total_costs = 0
            /\ a.cost_per_mile.num = 0

\* C8 as amended: for a vehicle with no monthly mileage entries the Cost
\* Per Mile Summary is skipped: no summary row and no annual metric is
\* produced, whatever logs the vehicle has.
C8_NoMetricsWithoutEntries ==
    (DetailShown /\ EntriesOf(view.truck_id) = {}) =>
        view.rows = <<>> /\ view.metrics = {}

\* the page of a vehicle that has logs and no monthly mileage entry
C8_Witness ==
    /\ DetailShown
    /\ EntriesOf(view.truck_id) = {}
    /\ \E l \in LogsOf(view.truck_id) : l.total_cost > 0

\* the entries of the vehicle on display whose interval holds the date d
EntriesHolding(d) ==
    {m \in EntriesOf(view.truck_id) : InMonthInterval(m.month_date, d)}

\* the column of the first entry, in month-ascending order, whose interval
\* holds d
FirstColumnHolding(b, d) ==
    CHOOSE j \in DOMAIN b.columns :
        /\ InMonthInterval(isoformat(b.columns[j]), d)
        /\ \A k \in 1..(j - 1) : ~ InMonthInterval(isoformat(b.columns[k]), d)

\* C9: in the category breakdown each log with a vocabulary description
\* adds its total_cost to exactly one cell, the row of its description in
\* the column of the first mileage entry (month-ascending) whose interval
\* holds its date, and to no cell when no interval holds its date.
C9_OneCellPerLog ==
    DetailShown =>
        \A b \in view.breakdown :
            \A l \in LogsOf(view.truck_id) :
                l.description \in Range(all_types) =>
                    b.added[l.id] =
                        IF EntriesHolding(l.date) = {} THEN {}
                        ELSE {<<l.description, FirstColumnHolding(b, l.date)>>}

\* C10: a log whose description is not in the vocabulary adds to no cell
\* of the breakdown, every cell and the 'Total Monthly Costs' row being
\* sums over vocabulary logs only, and is still counted in the
\* monthly_cost of the rows whose interval holds its date.
C10_UnclassifiedLog ==
    DetailShown =>
        \A b \in view.breakdown :
            LET vocabulary == {l \in LogsOf(view.truck_id) :
                                  l.description \in Range(all_types)}
            IN  /\ \A l \in LogsOf(view.truck_id) \ vocabulary :
                      /\ b.added[l.id] = {}
                      /\ \A m \in EntriesHolding(l.date) :
                            \A i \in RowsOf(m) :
                                /\ l.id \in view.rows[i].counted
                                /\ view.rows[i].monthly_cost =
                                      TotalCostOf({k \in LogsOf(view.truck_id) :
                                          k.id \in view.rows[i].counted})
                /\ \A c \in DOMAIN b.cost_summary :
                      b.cost_summary[c] =
                          TotalCostOf({l \in vocabulary : c \in b.added[l.id]})
                /\ \A j \in DOMAIN b.columns :
                      b.total_monthly[j] =
                          TotalCostOf({l \in vocabulary :
                              \E c \in b.added[l.id] : c[2] = j})

\* a log outside the vocabulary, alone in its month: the row has its cost
\* and the column's total is zero
C10_Witness ==
    /\ DetailShown
    /\ \E b \in view.breakdown :
          \E l \in LogsOf(view.truck_id) :
              /\ l.description \notin Range(all_types)
              /\ \E i \in DOMAIN view.rows :
                    /\ view.rows[i].counted = {l.id}
                    /\ view.rows[i].monthly_cost = l.total_cost
                    /\ l.total_cost > 0
                    /\ b.total_monthly[i] = 0

\* C11: in every month column of the category breakdown, the 'Total
\* Monthly Costs' row is the sum of the values of all description rows in
\* that column.
C11_TotalRowIsColumnSum ==
    DetailShown =>
        \A b \in view.breakdown :
            \A j \in DOMAIN b.columns :
                b.total_monthly[j] =
                    SumOver(Range(all_types),
                            [t \in Range(all_types) |-> b.cost_summary[<<t, j>>]])

\* a column with costs in an ENGINE row and in a MISC row
C11_Witness ==
    /\ DetailShown
    /\ \E b \in view.breakdown :
          \E j \in DOMAIN b.columns :
              /\ b.cost_summary[<<"Oil & Filter Change", j>>] > 0
              /\ b.cost_summary[<<"Other", j>>] > 0
              /\ b.total_monthly[j] = b.cost_summary[<<"Oil & Filter Change", j>>]
                                        + b.cost_summary[<<"Other", j>>]

\* C12: the monthly summary has exactly one row per stored monthly mileage
\* entry of the vehicle, showing that entry's date and readings, and the
\* rows are in ascending order of month date.
C12_OneRowPerEntryAscending ==
    DetailShown =>
        /\ Len(view.rows) = Cardinality(EntriesOf(view.truck_id))
        /\ \A m \in EntriesOf(view.truck_id) :
              /\ Cardinality(RowsOf(m)) = 1
              /\ \A i \in RowsOf(m) :
                    /\ isoformat(view.rows[i].month_date) = m.month_date
                    /\ view.rows[i].starting_mileage = m.starting_mileage
                    /\ view.rows[i].ending_mileage = m.ending_mileage
        /\ \A i, j \in DOMAIN view.rows :
              i < j => isoformat(view.rows[i].month_date)
                          <= isoformat(view.rows[j].month_date)

\* two rows of different months, the year changing between them
C12_Witness ==
    /\ DetailShown
    /\ Len(view.rows) = 2
    /\ view.rows[1].month_date[1] < view.rows[2].month_date[1]

RECURSIVE MileageOf(_)
\* the sum of ending_mileage - starting_mileage over the stored entries S
MileageOf(S) ==
    IF S = {} THEN 0
    ELSE LET m == CHOOSE m \in S : TRUE
         IN  (m.ending_mileage - m.starting_mileage) + MileageOf(S \ {m})

\* C13: every summary row has monthly_mileage = ending_mileage -
\* starting_mileage, negative when the ending reading is the lower one
\* (neither clamped nor rejected), and annual_mileage is the sum of these
\* differences with their signs.
C13_MonthlyMileageIsDifference ==
    DetailShown =>
        /\ \A m \in EntriesOf(view.truck_id) :
              /\ RowsOf(m) # {}
              /\ \A i \in RowsOf(m) :
                    view.rows[i].monthly_mileage
                        = m.ending_mileage - m.starting_mileage
        /\ \A a \in view.metrics :
              a.annual_mileage = MileageOf(EntriesOf(view.truck_id))

\* a row of negative mileage next to one of positive mileage, the annual
\* mileage being their sum
C13_Witness ==
    /\ DetailShown
    /\ Len(view.rows) = 2
    /\ view.rows[1].monthly_mileage < 0
    /\ view.rows[2].monthly_mileage > 0
    /\ \E a \in view.metrics : a.annual_mileage = 0

\* a script run in which no button that writes is pressed: the page is
\* selected, or a vehicle's page opened or left
RenderOnly == SelectPage \/ ViewDetails \/ BackToFleetOverview

C15_NoBreakdownWithoutEntries ==
    (DetailShown /\ EntriesOf(view.truck_id) = {}) =>
        /\ view.breakdown = {}
        /\ view.info = {"Add monthly mileage data to compute costs."}

\* the page of a vehicle that has a vocabulary log and no monthly mileage
\* entry, while another vehicle has one
C15_Witness ==
    /\ DetailShown
    /\ EntriesOf(view.truck_id) = {}
    /\ mileages # {}
    /\ \E l \in LogsOf(view.truck_id) :
          l.description \in Range(all_types) /\ l.total_cost > 0

\* a stored vehicle's mileage is lower after the step than before it
MileageLowered ==
    \E t \in trucks : \E r \in trucks' : r.id = t.id /\ r.mileage < t.mileage

\* C16 as stated: a vehicle's stored mileage never decreases, whatever the
\* operation (Add Truck, Add Log, Save Log Changes, Manage Trucks 'Save
\* Changes', deletes).
C16_MileageNeverDecreases == [][~ MileageLowered]_vars

\* C16 as amended: a vehicle's stored mileage is lowered by no operation
\* but Manage Trucks 'Save Changes', which stores the mileage typed into
\* the editor, lower or not.
C16_MileageLoweredOnlyBySaveChanges == [][MileageLowered => SaveChanges]_vars

\* a vehicle whose stored mileage is below the odometer reading of one of
\* its logs: raised by Add Log, lowered again in the editor
C16_Witness ==
    \E t \in trucks : \E l \in LogsOf(t.id) : t.mileage < l.odometer

C18_LogCommittedBeforeMileageUpdate ==
    [][AddLogUpdateFails =>
          /\ trucks' = trucks
          /\ \E l \in logs' \ logs :
                \E t \in trucks' : t.id = l.truck_id /\ t.mileage < l.odometer]_vars

\* the page stopped at the exception, the store holding a log above its
\* vehicle's mileage
C18_Witness ==
    /\ view.error = "update_truck raised"
    /\ \E t \in trucks : \E l \in LogsOf(t.id) : t.mileage < l.odometer

\* the truck ids app.py's AUTOINCREMENT has given that are no longer stored
AppDeletedTrucks == (1..app.seq.trucks) \ {t.id : t \in app.trucks}

\* C19: in app.py, after delete_truck(t) neither the truck t nor any
\* expense with truck_id = t remains and get_total_expenses(t) is 0.0, and
\* the delete leaves the trucks and the expenses of every other truck as
\* they were.
C19_AppDeleteRemovesExpenses ==
    [][AppDeleteTruck =>
          \E t \in app.trucks :
              /\ \A u \in app'.trucks : u.id # t.id
              /\ \A e \in app'.expenses : e.truck_id # t.id
              /\ app_get_total_expenses(app', t.id) = 0
              /\ app'.trucks = {u \in app.trucks : u.id # t.id}
              /\ app'.expenses = {e \in app.expenses : e.truck_id # t.id}
              /\ \A u \in app'.trucks :
                    app_get_total_expenses(app', u.id)
                        = app_get_total_expenses(app, u.id)]_vars

\* a truck deleted together with an expense of its own, another truck
\* keeping an expense
C19_Witness ==
    /\ AppDeletedTrucks # {}
    /\ Cardinality(app.expenses) < app.seq.expenses
    /\ \E t \in app.trucks : app_get_total_expenses(app, t.id) > 0

\* C20: whenever the Vehicle Detail view is rendered for the session's
\* selected_truck, a vehicle with that id is stored, whatever navigation
\* and store operations came before.
C20_SelectedTruckIsStored ==
    (view.page = "Vehicle Detail" /\ selected_truck # None) =>
        /\ \E t \in trucks : t.id = selected_truck
        /\ view.error # "IndexError"

\* a step that inserts a truck: the truck it added
AddedTrucks == {t \in trucks' : t.id \notin {u.id : u \in trucks}}

\* C21: vehicle ids are never reused: a newly added vehicle gets an id above
\* every id assigned before (the table's sqlite_sequence entry, which never
\* goes down), so no stored log or mileage entry is attributed to it, even
\* while rows of deleted vehicles are still stored.
C21_NewTruckIdIsFresh ==
    [][/\ seq'.trucks >= seq.trucks
       /\ \A t \in trucks : t.id <= seq.trucks
       /\ \A t \in AddedTrucks :
             /\ t.id > seq.trucks
             /\ t.id = seq'.trucks
             /\ \A l \in logs' : l.truck_id # t.id
             /\ \A m \in mileages' : m.truck_id # t.id]_vars

\* a vehicle was added last, a vehicle added before it is deleted and a
\* log of the deleted one is still stored; none is the new vehicle's
C21_Witness ==
    /\ \E t \in trucks : t.id = seq.trucks /\ LogsOf(t.id) = {}
    /\ \E l \in logs : l.truck_id \in DeletedTrucks /\ l.truck_id < seq.trucks

\* the vehicle's logs dated in the month interval of the entry m
LogsInIntervalOf(m) ==
    {l \in LogsOf(view.truck_id) : InMonthInterval(m.month_date, l.date)}

\* another entry of the vehicle has an interval that meets the one of m
Overlapped(m) ==
    \E o \in EntriesOf(view.truck_id) \ {m} :
        /\ o.month_date < OneCalendarMonthAfter(m.month_date)
        /\ m.month_date < OneCalendarMonthAfter(o.month_date)

\* the month dates of the vehicle's entries are pairwise distinct and no
\* log of the vehicle has a negative total_cost
DistinctMonthsAndNoNegativeCost ==
    /\ \A m \in EntriesOf(view.truck_id), o \in EntriesOf(view.truck_id) :
          m.month_date = o.month_date => m = o
    /\ \A l \in LogsOf(view.truck_id) : l.total_cost >= 0

Blank(text) == text \in {"", " ", "   "}

\* a step that inserts a maintenance log: the log it added
AddedLogs == {l \in logs' : l.id \notin {k.id : k \in logs}}

\* C23: a form submission that fails its required-field check (Add Truck
\* with a blank make or model, Add Log with a blank description) inserts no
\* row and leaves every stored vehicle, log and mileage entry unchanged,
\* the vehicle's mileage included; so no inserted row has a blank required
\* field.
C23_RejectedSubmissionWritesNothing ==
    [][/\ view'.error \in FormErrors =>
             UNCHANGED <<trucks, logs, mileages, seq>>
       /\ \A t \in AddedTrucks : ~ Blank(t.make) /\ ~ Blank(t.model)
       /\ \A l \in AddedLogs : ~ Blank(l.description)]_vars

\* Add Log was rejected for a vehicle whose mileage is below a reading
\* the form offers, while a truck and a log are stored
C23_Witness ==
    /\ view.error = "Description is required."
    /\ \E t \in trucks :
          t.id = selected_truck /\ \E o \in Odometers : t.mileage < o
    /\ logs # {}

\* the stored entry m holds what the editor row r shows: under r's id when
\* r is a stored row, under an id no entry had when r is a new row
HoldsEditorRow(m, r, truck_id) ==
    /\ m.truck_id = truck_id
    /\ IF r.id # None THEN m.id = r.id
       ELSE m.id \notin {o.id : o \in mileages}
    /\ m.month_date = r.month_date[1] * 10000 + r.month_date[2] * 100
                         + r.month_date[3]
    /\ m.starting_mileage = r.starting_mileage
    /\ m.ending_mileage = r.ending_mileage

\* C24: after 'Save Monthly Changes' for vehicle t, t's stored mileage
\* entries are exactly the editor rows not flagged for deletion (stored rows
\* under their id, new rows inserted with truck_id = t), and the entries of
\* every other vehicle are unchanged.
C24_SavedEntriesAreUnflaggedEditorRows ==
    [][SaveEditorRows =>
          LET t == edited_monthly.truck_id
              rows == edited_monthly.rows
              unflagged == {i \in DOMAIN rows : rows[i].delete # "True"}
          IN  /\ \A i \in unflagged :
                    \E m \in mileages' : HoldsEditorRow(m, rows[i], t)
              /\ \A m \in {m \in mileages' : m.truck_id = t} :
                    \E i \in unflagged : HoldsEditorRow(m, rows[i], t)
              /\ {m \in mileages' : m.truck_id # t}
                    = {m \in mileages : m.truck_id # t}]_vars

====
